---- MODULE Spec2Model ----
(***************************************************************************)
(* Model of maya_camera_tools.py: the near-plane viewing frustum of a Maya *)
(* camera, the field of view of a port, the camera resolution left by the  *)
(* film gate, and the clip test of a pixel.                                *)
(*                                                                         *)
(* Python floats are modelled as exact rationals <<n, d>> in lowest terms  *)
(* with d > 0 (rounding is not modelled).  A division by zero is Python's  *)
(* ZeroDivisionError: the function that performs it returns no value.      *)
(* An angle 2*atan(t) is represented by t, the tangent of its half angle:  *)
(* atan is strictly increasing, so two angles are equal exactly when their *)
(* representations are.                                                    *)
(***************************************************************************)
EXTENDS Integers, Sequences, FiniteSets

VARIABLES scene, call, ret, probes

vars == <<scene, call, ret, probes>>

(***************************************************************************)
(* Bounds of the model.                                                    *)
(***************************************************************************)
MaxAperture == 3
MaxRes == 4
MaxPoint == 5

(***************************************************************************)
(* Float arithmetic.                                                       *)
(***************************************************************************)
Abs(n) == IF n < 0 THEN -n ELSE n

RECURSIVE Gcd(_, _)
Gcd(a, b) == IF b = 0 THEN a ELSE Gcd(b, a % b)

Rat(n, d) ==
    LET g == Gcd(Abs(n), Abs(d))
        s == IF d < 0 THEN -1 ELSE 1
    IN  <<(s * n) \div g, (s * d) \div g>>

Float(n) == <<n, 1>>

\* sums and products cancel common factors before they multiply
Add(a, b) ==
    LET g == Gcd(a[2], b[2])
    IN  Rat(a[1] * (b[2] \div g) + b[1] * (a[2] \div g), (a[2] \div g) * b[2])
Neg(a) == <<-a[1], a[2]>>
Sub(a, b) == Add(a, Neg(b))
Mul(a, b) ==
    LET g == Gcd(Abs(a[1]), b[2])
        h == Gcd(Abs(b[1]), a[2])
    IN  Rat((a[1] \div g) * (b[1] \div h), (a[2] \div h) * (b[2] \div g))
\* a / b for b # 0
Div(a, b) == Mul(a, Rat(b[2], b[1]))
Lt(a, b) ==
    LET g == Gcd(a[2], b[2])
    IN  a[1] * (b[2] \div g) < b[1] * (a[2] \div g)
Ge(a, b) == ~Lt(a, b)
Gt(a, b) == Lt(b, a)
IsZero(a) == a[1] = 0

\* int(a): truncation towards zero
Trunc(a) == IF a[1] >= 0 THEN a[1] \div a[2] ELSE -((-a[1]) \div a[2])

\* not v, for v an int or None
None == <<"None">>
PyInt(n) == <<"int", n>>
Falsy(v) == v = None \/ v = PyInt(0)

ZeroDivisionError == [status |-> "ZeroDivisionError"]

\* the constant of the source is 1/25.4 rounded to 11 places
mm_to_inch == Rat(5, 127)

(***************************************************************************)
(* compute_camera_viewing_frustum                                          *)
(***************************************************************************)
\* scale_x, scale_y, translate_x, translate_y after the film fit branch
film_fit_scale(camera, window_aspect) ==
    LET film_aspect == camera.aspectRatio
        aperture_x == camera.horizontalFilmAperture
        aperture_y == camera.verticalFilmAperture
        film_fit_offset == camera.filmFitOffset
        film_fit == camera.filmFit
        one == Float(1)
        zero == Float(0)
        dflt == [status |-> "ok", scale_x |-> one, scale_y |-> one,
                 translate_x |-> zero, translate_y |-> zero]
        two == Float(2)
    IN  IF film_fit = "fill" THEN
            IF Lt(window_aspect, film_aspect) THEN
                IF IsZero(film_aspect) THEN ZeroDivisionError
                ELSE [dflt EXCEPT !.scale_x = Div(window_aspect, film_aspect)]
            ELSE
                IF IsZero(window_aspect) THEN ZeroDivisionError
                ELSE [dflt EXCEPT !.scale_y = Div(film_aspect, window_aspect)]
        ELSE IF film_fit = "horizontal" THEN
            IF IsZero(window_aspect) THEN ZeroDivisionError
            ELSE LET scale_y == Div(film_aspect, window_aspect)
                 IN  IF Gt(scale_y, one) THEN
                         [dflt EXCEPT !.scale_y = scale_y,
                              !.translate_y =
                                  Div(Mul(film_fit_offset,
                                          Sub(aperture_y, Mul(aperture_y, scale_y))),
                                      two)]
                     ELSE [dflt EXCEPT !.scale_y = scale_y]
        ELSE IF film_fit = "vertical" THEN
            IF IsZero(film_aspect) THEN ZeroDivisionError
            ELSE LET scale_x == Div(window_aspect, film_aspect)
                 IN  IF Gt(scale_x, one) THEN
                         [dflt EXCEPT !.scale_x = scale_x,
                              !.translate_x =
                                  Div(Mul(film_fit_offset,
                                          Sub(aperture_x, Mul(aperture_x, scale_x))),
                                      two)]
                     ELSE [dflt EXCEPT !.scale_x = scale_x]
        ELSE IF film_fit = "overscan" THEN
            IF Lt(window_aspect, film_aspect) THEN
                IF IsZero(window_aspect) THEN ZeroDivisionError
                ELSE [dflt EXCEPT !.scale_y = Div(film_aspect, window_aspect)]
            ELSE
                IF IsZero(film_aspect) THEN ZeroDivisionError
                ELSE [dflt EXCEPT !.scale_x = Div(window_aspect, film_aspect)]
        ELSE dflt

\* variant: overscan taken as the padding beyond 1.0
overscan_scale_relative(camera, s, apply_overscan) ==
    IF apply_overscan
    THEN [s EXCEPT !.scale_x = Mul(s.scale_x, Sub(camera.overscan, Float(1))),
                   !.scale_y = Mul(s.scale_y, Sub(camera.overscan, Float(1)))]
    ELSE s

\* if apply_overscan: scale_x *= overscan; scale_y *= overscan
overscan_scale(camera, s, apply_overscan) ==
    IF apply_overscan
    THEN [s EXCEPT !.scale_x = Mul(s.scale_x, camera.overscan),
                   !.scale_y = Mul(s.scale_y, camera.overscan)]
    ELSE s

\* variant: -1.0 for -.5 in left
frustum_rect_wide(camera, focal_to_near, s) ==
    LET half == Rat(1, 2)
        aperture_x == camera.horizontalFilmAperture
        aperture_y == camera.verticalFilmAperture
        offset_x == camera.horizontalFilmOffset
        offset_y == camera.verticalFilmOffset
    IN  [status |-> "ok",
         left   |-> Mul(focal_to_near, Add(Add(Mul(Mul(Float(-1), aperture_x), s.scale_x), offset_x), s.translate_x)),
         right  |-> Mul(focal_to_near, Add(Add(Mul(Mul(half, aperture_x), s.scale_x), offset_x), s.translate_x)),
         bottom |-> Mul(focal_to_near, Add(Add(Mul(Mul(Neg(half), aperture_y), s.scale_y), offset_y), s.translate_y)),
         top    |-> Mul(focal_to_near, Add(Add(Mul(Mul(half, aperture_y), s.scale_y), offset_y), s.translate_y)),
         scale_x |-> s.scale_x, scale_y |-> s.scale_y]

\* left, right, bottom, top from the scales; the scales used are kept
frustum_rect(camera, focal_to_near, s) ==
    LET half == Rat(1, 2)
        aperture_x == camera.horizontalFilmAperture
        aperture_y == camera.verticalFilmAperture
        offset_x == camera.horizontalFilmOffset
        offset_y == camera.verticalFilmOffset
    IN  [status |-> "ok",
         left   |-> Mul(focal_to_near, Add(Add(Mul(Mul(Neg(half), aperture_x), s.scale_x), offset_x), s.translate_x)),
         right  |-> Mul(focal_to_near, Add(Add(Mul(Mul(half, aperture_x), s.scale_x), offset_x), s.translate_x)),
         bottom |-> Mul(focal_to_near, Add(Add(Mul(Mul(Neg(half), aperture_y), s.scale_y), offset_y), s.translate_y)),
         top    |-> Mul(focal_to_near, Add(Add(Mul(Mul(half, aperture_y), s.scale_y), offset_y), s.translate_y)),
         scale_x |-> s.scale_x, scale_y |-> s.scale_y]

\* lines 58-68, reached when no division of the film fit branch failed
frustum_of_scale(camera, focal_to_near, s, apply_overscan) ==
    IF s.status # "ok" THEN ZeroDivisionError
    ELSE frustum_rect(camera, focal_to_near, overscan_scale(camera, s, apply_overscan))

compute_camera_viewing_frustum(camera, window_aspect, apply_overscan) ==
    LET focal_len_inch == Mul(camera.focalLength, mm_to_inch)
    IN  IF IsZero(focal_len_inch) THEN ZeroDivisionError
        ELSE frustum_of_scale(
                 camera,
                 Mul(Div(camera.nearClipPlane, focal_len_inch), camera.cameraScale),
                 film_fit_scale(camera, window_aspect),
                 apply_overscan)

(***************************************************************************)
(* get_camera_port_field_of_view                                           *)
(***************************************************************************)
\* horizontal and vertical from the frustum f = (left, right, bottom, top)
fov_of_frustum(f, near) ==
    IF f.status # "ok" \/ IsZero(near) THEN ZeroDivisionError
    ELSE [status |-> "ok",
          horizontal |-> Div(Mul(Sub(f.right, f.left), Rat(1, 2)), near),
          vertical |-> Div(Mul(Sub(f.top, f.bottom), Rat(1, 2)), near)]

get_camera_port_field_of_view(camera, port_width, port_height) ==
    IF IsZero(port_height) THEN ZeroDivisionError
    ELSE fov_of_frustum(
             compute_camera_viewing_frustum(camera, Div(port_width, port_height), FALSE),
             camera.nearClipPlane)

\* the float 1.0 as a ratio of two angles
One == <<Float(1), Float(1)>>

\* hfov / vfov for vfov # 0, of angles given by their half-angle tangents
AngleRatio(hfov, vfov) == IF hfov = vfov THEN One ELSE <<hfov, vfov>>

\* fov_ratio = hfov / vfov, and the resolution returned with it
fov_ratio_of(fov, cam_width, cam_height, log) ==
    IF fov.status # "ok" \/ IsZero(fov.vertical)
    THEN [ret |-> ZeroDivisionError, probes |-> log]
    ELSE [ret |-> [status |-> "ok", cam_width |-> cam_width,
                   cam_height |-> cam_height,
                   fov_ratio |-> AngleRatio(fov.horizontal, fov.vertical)],
          probes |-> log]

\* hfov, vfov = get_camera_port_field_of_view(...); fov_ratio = hfov / vfov
fov_probe(camera, cam_width, cam_height, port_width, port_height) ==
    fov_ratio_of(get_camera_port_field_of_view(camera, port_width, port_height),
                 cam_width, cam_height, << <<port_width, port_height>> >>)

(***************************************************************************)
(* get_render_image_resolution, will_render_ignore_film_gate               *)
(***************************************************************************)
get_render_image_resolution(globals) ==
    LET resolutions == globals.resolution
    IN  IF Len(resolutions) > 0
        THEN <<resolutions[1].width, resolutions[1].height>>
        ELSE <<None, None>>

will_render_ignore_film_gate(globals) == globals.ignoreFilmGate

(***************************************************************************)
(* get_camera_resolution_fov_ratio                                         *)
(***************************************************************************)
DefaultWidth == 320
DefaultHeight == 240

\* variant: the default only when both dimensions are missing
render_resolution_or_default_and(res) ==
    IF Falsy(res[1]) /\ Falsy(res[2]) THEN <<DefaultWidth, DefaultHeight>>
    ELSE <<res[1][2], res[2][2]>>

\* cam_width, cam_height = get_render_image_resolution(), or the default
render_resolution_or_default(res) ==
    IF Falsy(res[1]) \/ Falsy(res[2]) THEN <<DefaultWidth, DefaultHeight>>
    ELSE <<res[1][2], res[2][2]>>

no_division(aperture_x, aperture_y) == IsZero(aperture_x) \/ IsZero(aperture_y)

\* variant: cam_height = int(new_height) without new_height < cam_height
fit_horizontal_unchecked(camera, cam_width, cam_height, ignore_film_gate) ==
    LET aperture_x == camera.horizontalFilmAperture
        aperture_y == camera.verticalFilmAperture
    IN  IF ~ignore_film_gate /\ no_division(aperture_x, aperture_y)
        THEN [ret |-> ZeroDivisionError, probes |-> <<>>]
        ELSE
            LET new_height == Div(Float(cam_width), Div(aperture_x, aperture_y))
                h == IF ~ignore_film_gate THEN Trunc(new_height) ELSE cam_height
            IN  fov_probe(camera, cam_width, h, Float(cam_width), Float(h))

fit_horizontal(camera, cam_width, cam_height, ignore_film_gate) ==
    LET aperture_x == camera.horizontalFilmAperture
        aperture_y == camera.verticalFilmAperture
    IN  IF ~ignore_film_gate /\ no_division(aperture_x, aperture_y)
        THEN [ret |-> ZeroDivisionError, probes |-> <<>>]
        ELSE
            LET new_height == Div(Float(cam_width), Div(aperture_x, aperture_y))
                h == IF ~ignore_film_gate /\ Lt(new_height, Float(cam_height))
                     THEN Trunc(new_height) ELSE cam_height
            IN  fov_probe(camera, cam_width, h, Float(cam_width), Float(h))

\* variant: case 3 probes at the render resolution
fit_vertical_resolution_probe(camera, cam_width, cam_height, ignore_film_gate) ==
    LET aperture_x == camera.horizontalFilmAperture
        aperture_y == camera.verticalFilmAperture
    IN  IF no_division(aperture_x, aperture_y)
        THEN [ret |-> ZeroDivisionError, probes |-> <<>>]
        ELSE
            LET new_width == Div(Float(cam_height), Div(aperture_y, aperture_x))
            IN  IF Lt(new_width, Float(cam_width)) /\ ~ignore_film_gate THEN
                    [ret |-> [status |-> "ok", cam_width |-> Trunc(new_width),
                              cam_height |-> cam_height, fov_ratio |-> One],
                     probes |-> <<>>]
                ELSE IF Lt(new_width, Float(cam_width)) /\ ignore_film_gate THEN
                    fov_probe(camera, cam_width, cam_height, new_width, Float(cam_height))
                ELSE IF ~ignore_film_gate THEN
                    fov_probe(camera, cam_width, cam_height, Float(cam_width), Float(cam_height))
                ELSE
                    fov_probe(camera, cam_width, cam_height, new_width, Float(cam_height))

fit_vertical(camera, cam_width, cam_height, ignore_film_gate) ==
    LET aperture_x == camera.horizontalFilmAperture
        aperture_y == camera.verticalFilmAperture
    IN  IF no_division(aperture_x, aperture_y)
        THEN [ret |-> ZeroDivisionError, probes |-> <<>>]
        ELSE
            LET new_width == Div(Float(cam_height), Div(aperture_y, aperture_x))
            IN  \* case 1: film-gate smaller than resolution film-gate on
                IF Lt(new_width, Float(cam_width)) /\ ~ignore_film_gate THEN
                    [ret |-> [status |-> "ok", cam_width |-> Trunc(new_width),
                              cam_height |-> cam_height, fov_ratio |-> One],
                     probes |-> <<>>]
                \* case 2: film-gate smaller than resolution film-gate off
                ELSE IF Lt(new_width, Float(cam_width)) /\ ignore_film_gate THEN
                    fov_probe(camera, cam_width, cam_height, new_width, Float(cam_height))
                \* case 3: film-gate larger than resolution film-gate on
                ELSE IF ~ignore_film_gate THEN
                    fov_probe(camera, cam_width, cam_height, new_width, Float(cam_height))
                \* case 4: film-gate larger than resolution film-gate off
                ELSE
                    fov_probe(camera, cam_width, cam_height, new_width, Float(cam_height))

fit_overscan(camera, cam_width, cam_height, ignore_film_gate) ==
    LET aperture_x == camera.horizontalFilmAperture
        aperture_y == camera.verticalFilmAperture
    IN  IF no_division(aperture_x, aperture_y)
        THEN [ret |-> ZeroDivisionError, probes |-> <<>>]
        ELSE
            LET new_height == Div(Float(cam_width), Div(aperture_x, aperture_y))
                new_width == Div(Float(cam_height), Div(aperture_y, aperture_x))
            IN  IF Lt(new_width, Float(cam_width)) THEN
                    IF ~ignore_film_gate THEN
                        [ret |-> [status |-> "ok", cam_width |-> Trunc(new_width),
                                  cam_height |-> cam_height, fov_ratio |-> One],
                         probes |-> <<>>]
                    ELSE
                        fov_probe(camera, cam_width, cam_height, new_width, Float(cam_height))
                ELSE
                    LET h == IF ~ignore_film_gate THEN Trunc(new_height) ELSE cam_height
                    IN  fov_probe(camera, cam_width, h, Float(cam_width), Float(h))

\* variant: new_width from aperture_x / aperture_y as the divisor
fit_fill_inverse_ratio(camera, cam_width, cam_height) ==
    LET aperture_x == camera.horizontalFilmAperture
        aperture_y == camera.verticalFilmAperture
    IN  IF no_division(aperture_x, aperture_y)
        THEN [ret |-> ZeroDivisionError, probes |-> <<>>]
        ELSE
            LET new_width == Div(Float(cam_height), Div(aperture_x, aperture_y))
            IN  IF Ge(new_width, Float(cam_width)) THEN
                    fov_probe(camera, cam_width, cam_height, new_width, Float(cam_height))
                ELSE
                    fov_probe(camera, cam_width, cam_height, Float(cam_width), Float(cam_height))

fit_fill(camera, cam_width, cam_height) ==
    LET aperture_x == camera.horizontalFilmAperture
        aperture_y == camera.verticalFilmAperture
    IN  IF no_division(aperture_x, aperture_y)
        THEN [ret |-> ZeroDivisionError, probes |-> <<>>]
        ELSE
            LET new_width == Div(Float(cam_height), Div(aperture_y, aperture_x))
            IN  IF Ge(new_width, Float(cam_width)) THEN
                    fov_probe(camera, cam_width, cam_height, new_width, Float(cam_height))
                ELSE
                    fov_probe(camera, cam_width, cam_height, Float(cam_width), Float(cam_height))

\* the branch on film_fit, from the starting cam_width and cam_height
film_fit_resolution(camera, cam_width, cam_height, ignore_film_gate) ==
    LET film_fit == camera.filmFit
    IN  IF film_fit = "horizontal" THEN
            fit_horizontal(camera, cam_width, cam_height, ignore_film_gate)
        ELSE IF film_fit = "vertical" THEN
            fit_vertical(camera, cam_width, cam_height, ignore_film_gate)
        ELSE IF film_fit = "overscan" THEN
            fit_overscan(camera, cam_width, cam_height, ignore_film_gate)
        ELSE IF film_fit = "fill" THEN
            fit_fill(camera, cam_width, cam_height)
        ELSE [ret |-> [status |-> "ok", cam_width |-> cam_width,
                       cam_height |-> cam_height, fov_ratio |-> One],
              probes |-> <<>>]

get_camera_resolution_fov_ratio(camera, globals) ==
    LET ignore_film_gate == will_render_ignore_film_gate(globals)
        res == render_resolution_or_default(get_render_image_resolution(globals))
    IN  film_fit_resolution(camera, res[1], res[2], ignore_film_gate)

(***************************************************************************)
(* is_point_clipped                                                        *)
(***************************************************************************)
\* variant: (a - b) // 2, the division of two ints rounded down
half_difference_floor(a, b) == Float((a - b) \div 2)

\* (a - b) / 2, the true division of two ints
half_difference(a, b) == Div(Float(a - b), Float(2))

\* variant: the margin tests made without comparing the resolutions
is_point_clipped_unguarded(x, y, render_resolution, camera_resolution) ==
    LET new_height == half_difference(render_resolution[2], camera_resolution[2])
        new_width == half_difference(render_resolution[1], camera_resolution[1])
    IN  \/ Lt(Float(y), new_height)
        \/ Ge(Float(y), Sub(Float(render_resolution[2]), new_height))
        \/ Lt(Float(x), new_width)
        \/ Ge(Float(x), Sub(Float(render_resolution[1]), new_width))

is_point_clipped(x, y, render_resolution, camera_resolution) ==
    LET new_height == half_difference(render_resolution[2], camera_resolution[2])
        new_width == half_difference(render_resolution[1], camera_resolution[1])
    IN  \/ /\ render_resolution[2] # camera_resolution[2]
           /\ \/ Lt(Float(y), new_height)
              \/ Ge(Float(y), Sub(Float(render_resolution[2]), new_height))
        \/ /\ render_resolution[1] # camera_resolution[1]
           /\ \/ Lt(Float(x), new_width)
              \/ Ge(Float(x), Sub(Float(render_resolution[1]), new_width))

(***************************************************************************)
(* The scene: the camera attributes and the render globals that the        *)
(* functions query, drawn from bounded sets.                               *)
(***************************************************************************)
ApertureVals == {Rat(n, 2) : n \in 1..MaxAperture}

OffsetVals == {<<Float(0), Float(0)>>, <<Rat(1, 2), Float(0)>>,
               <<Float(0), Rat(-1, 2)>>, <<Rat(-1, 4), Rat(1, 2)>>}

Lenses == {[focalLength |-> Float(35), nearClipPlane |-> Rat(1, 10), cameraScale |-> Float(1)],
           [focalLength |-> Float(50), nearClipPlane |-> Float(1), cameraScale |-> Float(2)]}

FilmFits == {"fill", "horizontal", "vertical", "overscan"}

\* a filmFit string that is none of the four
OtherFilmFits == {"unknown"}

OverscanVals == {Float(0), Float(1), Rat(13, 10)}

\* the aspectRatio attribute of a Maya camera is the ratio of its apertures
Cameras(overscans) ==
    {[aspectRatio |-> Div(ax, ay),
      horizontalFilmAperture |-> ax, verticalFilmAperture |-> ay,
      horizontalFilmOffset |-> off[1], verticalFilmOffset |-> off[2],
      filmFitOffset |-> ffo,
      focalLength |-> lens.focalLength, nearClipPlane |-> lens.nearClipPlane,
      cameraScale |-> lens.cameraScale,
      filmFit |-> fit, overscan |-> os] :
        ax \in ApertureVals, ay \in ApertureVals, off \in OffsetVals,
        ffo \in {Float(0), Float(1)}, lens \in Lenses,
        fit \in FilmFits \cup OtherFilmFits, os \in overscans}

\* the nodes connected to defaultRenderGlobals.resolution
ResolutionNodes == {[width |-> PyInt(w), height |-> PyInt(h)] : w \in 0..MaxRes, h \in 0..MaxRes}

RenderGlobals ==
    {[resolution |-> r, ignoreFilmGate |-> g] :
        r \in {<<>>} \cup {<<n>> : n \in ResolutionNodes}, g \in BOOLEAN}

DefaultGlobals == [resolution |-> <<>>, ignoreFilmGate |-> FALSE]

DefaultCamera ==
    CHOOSE c \in Cameras({Float(1)}) :
        /\ c.filmFit = "fill"
        /\ c.horizontalFilmAperture = Rat(3, 2) /\ c.verticalFilmAperture = Float(1)
        /\ c.horizontalFilmOffset = Float(0) /\ c.verticalFilmOffset = Float(0)
        /\ c.filmFitOffset = Float(0) /\ c.focalLength = Float(35)

WindowAspects == {Rat(w, h) : w \in 1..MaxRes, h \in 1..MaxRes}

Pending == [status |-> "pending"]

(***************************************************************************)
(* compute_camera_viewing_frustum called on a camera.                      *)
(***************************************************************************)
InitFrustum ==
    /\ scene \in {[camera |-> c, globals |-> DefaultGlobals] :
                     c \in Cameras(OverscanVals)}
    /\ call \in {[op |-> "compute_camera_viewing_frustum",
                  window_aspect |-> wa, apply_overscan |-> ao] :
                     wa \in WindowAspects, ao \in BOOLEAN}
    /\ ret = Pending
    /\ probes = <<>>

ComputeFrustum ==
    /\ call.op = "compute_camera_viewing_frustum"
    /\ ret = Pending
    /\ ret' = compute_camera_viewing_frustum(scene.camera, call.window_aspect,
                                             call.apply_overscan)
    /\ UNCHANGED <<scene, call, probes>>

NextFrustum == ComputeFrustum

SpecFrustum == InitFrustum /\ [][NextFrustum]_vars

(***************************************************************************)
(* get_camera_resolution_fov_ratio called on a camera; its field of view   *)
(* probes never apply the overscan attribute.                              *)
(***************************************************************************)
InitReconcile ==
    /\ scene \in {[camera |-> c, globals |-> g] :
                     c \in Cameras({Float(1)}), g \in RenderGlobals}
    /\ call = [op |-> "get_camera_resolution_fov_ratio"]
    /\ ret = Pending
    /\ probes = <<>>

\* the call ends with r.ret, having made the probes r.probes
Returns(r) ==
    /\ ret' = r.ret
    /\ probes' = r.probes

Reconcile ==
    /\ call.op = "get_camera_resolution_fov_ratio"
    /\ ret = Pending
    /\ Returns(get_camera_resolution_fov_ratio(scene.camera, scene.globals))
    /\ UNCHANGED <<scene, call>>

NextReconcile == Reconcile

SpecReconcile == InitReconcile /\ [][NextReconcile]_vars

(***************************************************************************)
(* is_point_clipped called on a point.                                     *)
(***************************************************************************)
Resolutions == (1..MaxRes) \X (1..MaxRes)

InitClip ==
    /\ scene = [camera |-> DefaultCamera, globals |-> DefaultGlobals]
    /\ call \in {[op |-> "is_point_clipped", x |-> x, y |-> y,
                  render_resolution |-> rr, camera_resolution |-> cr] :
                     x \in -1..MaxPoint, y \in -1..MaxPoint,
                     rr \in Resolutions, cr \in Resolutions}
    /\ ret = Pending
    /\ probes = <<>>

IsPointClipped ==
    /\ call.op = "is_point_clipped"
    /\ ret = Pending
    /\ ret' = [status |-> "ok",
               clipped |-> is_point_clipped(call.x, call.y, call.render_resolution,
                                            call.camera_resolution)]
    /\ UNCHANGED <<scene, call, probes>>

NextClip == IsPointClipped

SpecClip == InitClip /\ [][NextClip]_vars

(***************************************************************************)
(* Properties.                                                             *)
(***************************************************************************)
Camera == scene.camera
Globals == scene.globals
Returned == ret.status = "ok"
Zero == Float(0)

\* the render resolution is supplied, as two positive integers
PositiveRender ==
    /\ Len(Globals.resolution) > 0
    /\ Globals.resolution[1].width[2] >= 1
    /\ Globals.resolution[1].height[2] >= 1

RenderWidth == Globals.resolution[1].width[2]
RenderHeight == Globals.resolution[1].height[2]

\* the resolution is not supplied: no node, or a dimension that is not set
AbsentRender ==
    \/ Len(Globals.resolution) = 0
    \/ Globals.resolution[1].width[2] = 0
    \/ Globals.resolution[1].height[2] = 0

StartWidth == IF PositiveRender THEN RenderWidth ELSE DefaultWidth
StartHeight == IF PositiveRender THEN RenderHeight ELSE DefaultHeight

ApertureRatio == Div(Camera.horizontalFilmAperture, Camera.verticalFilmAperture)

\* the result of one field of view probe at (w, h), and nothing else probed
ProbedAt(w, h) ==
    LET fov == get_camera_port_field_of_view(Camera, w, h)
    IN  /\ probes = << <<w, h>> >>
        /\ Returned
        /\ ret.fov_ratio = AngleRatio(fov.horizontal, fov.vertical)

\* C1: with the film gate enforced and a positive render resolution, the
\* camera resolution returned in the horizontal, vertical and overscan modes
\* is at most the render resolution in both dimensions.
C1_CameraWithinRender ==
    (/\ Returned
     /\ PositiveRender
     /\ ~Globals.ignoreFilmGate
     /\ Camera.filmFit \in {"horizontal", "vertical", "overscan"})
    => /\ ret.cam_width <= RenderWidth
       /\ ret.cam_height <= RenderHeight

\* the overscan branch with new_width >= cam_width replaced cam_height
C1_Witness ==
    /\ Returned
    /\ PositiveRender
    /\ ~Globals.ignoreFilmGate
    /\ Camera.filmFit = "overscan"
    /\ Ge(Mul(Float(RenderHeight), ApertureRatio), Float(RenderWidth))
    /\ ret.cam_width = RenderWidth
    /\ ret.cam_height < RenderHeight

\* C2: a film fit outside the four modes makes compute_camera_viewing_frustum
\* end in an error and return no rectangle.
C2_UnknownFitIsError ==
    (ret # Pending /\ Camera.filmFit \notin FilmFits) => ret.status # "ok"

\* C3: without a render resolution the call returns what the film fit branch
\* gives from (320, 240); with a positive one, what it gives from that one.
C3_DefaultResolution ==
    ret # Pending =>
        /\ AbsentRender =>
               /\ Returned
               /\ ret = film_fit_resolution(Camera, 320, 240, Globals.ignoreFilmGate).ret
        /\ PositiveRender =>
               ret = film_fit_resolution(Camera, RenderWidth, RenderHeight,
                                         Globals.ignoreFilmGate).ret

\* the default (320, 240) was substituted and is what is reported
C3_Witness ==
    /\ Returned
    /\ Len(Globals.resolution) = 0
    /\ Camera.filmFit = "fill"
    /\ Len(probes) = 1
    /\ ret.cam_width = 320 /\ ret.cam_height = 240

FillAtFilmAspect ==
    /\ Returned
    /\ Camera.filmFit = "fill"
    /\ call.window_aspect = Camera.aspectRatio

\* C4 as stated: in fill mode at window_aspect = aspect_ratio both scales are
\* 1 and left = -right, bottom = -top.
C4_SymmetricAlways ==
    FillAtFilmAspect =>
        /\ ret.scale_x = Float(1) /\ ret.scale_y = Float(1)
        /\ ret.left = Neg(ret.right)
        /\ ret.bottom = Neg(ret.top)

\* C4 amended: in fill mode at window_aspect = aspect_ratio both scales are 1
\* without overscan and equal to the overscan multiplier with it, and
\* left = -right when offset_x = 0, bottom = -top when offset_y = 0.
C4_SymmetricAboutOffset ==
    FillAtFilmAspect =>
        /\ ret.scale_x = (IF call.apply_overscan THEN Camera.overscan ELSE Float(1))
        /\ ret.scale_y = ret.scale_x
        /\ IsZero(Camera.horizontalFilmOffset) => ret.left = Neg(ret.right)
        /\ IsZero(Camera.verticalFilmOffset) => ret.bottom = Neg(ret.top)

C4_Witness ==
    /\ FillAtFilmAspect
    /\ ~call.apply_overscan
    /\ IsZero(Camera.horizontalFilmOffset) /\ IsZero(Camera.verticalFilmOffset)
    /\ Lt(ret.left, Zero) /\ Lt(ret.bottom, Zero)

\* C5 as stated: for each of the four modes, with overscan >= 0 applied or
\* not, the rectangle has left < right and bottom < top.
C5_NonEmptyAlways ==
    (Returned /\ Camera.filmFit \in FilmFits) =>
        /\ Lt(ret.left, ret.right)
        /\ Lt(ret.bottom, ret.top)

\* C5 amended: the same, provided the overscan multiplier is > 0 when
\* overscan is applied.
C5_NonEmptyRect ==
    (/\ Returned
     /\ Camera.filmFit \in FilmFits
     /\ call.apply_overscan => Gt(Camera.overscan, Zero)) =>
        /\ Lt(ret.left, ret.right)
        /\ Lt(ret.bottom, ret.top)

C5_Witness ==
    /\ Returned
    /\ Camera.filmFit = "vertical"
    /\ call.apply_overscan /\ Gt(Camera.overscan, Float(1))
    /\ ~IsZero(Camera.horizontalFilmOffset)
    /\ Gt(ret.scale_x, Camera.overscan)
    /\ Lt(ret.left, ret.right) /\ Lt(ret.bottom, ret.top)

\* C6: with camera_resolution = render_resolution no point is clipped.
C6_SameResolutionNeverClips ==
    (Returned /\ call.camera_resolution = call.render_resolution) => ~ret.clipped

\* the midpoint of the render resolution
C6_Witness ==
    /\ Returned
    /\ call.camera_resolution = call.render_resolution
    /\ 2 * call.x = call.render_resolution[1]
    /\ 2 * call.y = call.render_resolution[2]
    /\ ~ret.clipped

\* C7 as stated: in fill mode the probe width is cam_h * (aperture_y /
\* aperture_x); the probe is at (new_width, cam_h) if new_width >= cam_w and
\* at (cam_w, cam_h) otherwise; the resolution reported is the starting one.
C7_FillInverseRatio ==
    (ret # Pending /\ Camera.filmFit = "fill") =>
        LET new_width == Mul(Float(StartHeight),
                             Div(Camera.verticalFilmAperture, Camera.horizontalFilmAperture))
        IN  /\ IF Ge(new_width, Float(StartWidth))
               THEN ProbedAt(new_width, Float(StartHeight))
               ELSE ProbedAt(Float(StartWidth), Float(StartHeight))
            /\ ret.cam_width = StartWidth
            /\ ret.cam_height = StartHeight

\* C7 amended: the probe width is cam_h * (aperture_x / aperture_y), the
\* ratio of the other modes; the rest as stated.
C7_FillSameRatio ==
    (ret # Pending /\ Camera.filmFit = "fill") =>
        LET new_width == Mul(Float(StartHeight), ApertureRatio)
        IN  /\ IF Ge(new_width, Float(StartWidth))
               THEN ProbedAt(new_width, Float(StartHeight))
               ELSE ProbedAt(Float(StartWidth), Float(StartHeight))
            /\ ret.cam_width = StartWidth
            /\ ret.cam_height = StartHeight

\* a fill probe at a width that the inverse ratio would not give
C7_Witness ==
    /\ Returned
    /\ Camera.filmFit = "fill"
    /\ Len(probes) = 1
    /\ Gt(ApertureRatio, Float(1))
    /\ Gt(probes[1][1], Float(StartWidth))
    /\ ret.cam_width = StartWidth

\* C8: in vertical mode, new_width < cam_w with the gate enforced returns
\* floor(new_width), the height unchanged and fov_ratio 1.0 with no probe;
\* the three other cases return the starting resolution and the ratio of
\* the probe at (new_width, cam_h).
C8_VerticalTwoOutcomes ==
    (ret # Pending /\ Camera.filmFit = "vertical") =>
        LET new_width == Mul(Float(StartHeight), ApertureRatio)
        IN  IF Lt(new_width, Float(StartWidth)) /\ ~Globals.ignoreFilmGate
            THEN /\ Returned
                 /\ probes = <<>>
                 /\ ret.fov_ratio = One
                 /\ ret.cam_width = new_width[1] \div new_width[2]
                 /\ ret.cam_height = StartHeight
            ELSE /\ ProbedAt(new_width, Float(StartHeight))
                 /\ ret.cam_width = StartWidth
                 /\ ret.cam_height = StartHeight

\* case 1 truncated a fractional new_width
C8_Witness ==
    /\ Returned
    /\ Camera.filmFit = "vertical"
    /\ PositiveRender /\ ~Globals.ignoreFilmGate
    /\ probes = <<>>
    /\ ret.cam_width >= 1 /\ ret.cam_width < RenderWidth
    /\ Mul(Float(RenderHeight), ApertureRatio)[2] # 1

\* C9: from a positive render resolution the call returns, and returns
\* cam_width >= 1 and cam_height >= 1.
C9_NoZeroDimension ==
    (ret # Pending /\ PositiveRender) =>
        /\ Returned
        /\ ret.cam_width >= 1
        /\ ret.cam_height >= 1

\* the pixels of the render image that are not clipped
Unclipped(render_resolution, camera_resolution) ==
    {p \in (0..(render_resolution[1] - 1)) \X (0..(render_resolution[2] - 1)) :
        ~is_point_clipped(p[1], p[2], render_resolution, camera_resolution)}

\* C10: for a camera resolution (w, h) within the render resolution, exactly
\* w * h pixels of the render image are not clipped.
C10_UnclippedCount ==
    (/\ Returned
     /\ call.camera_resolution[1] <= call.render_resolution[1]
     /\ call.camera_resolution[2] <= call.render_resolution[2]) =>
        /\ Cardinality(Unclipped(call.render_resolution, call.camera_resolution))
               = call.camera_resolution[1] * call.camera_resolution[2]
        /\ (call.x \in 0..(call.render_resolution[1] - 1)
            /\ call.y \in 0..(call.render_resolution[2] - 1)) =>
               (~ret.clipped <=>
                    /\ 2 * call.x >= call.render_resolution[1] - call.camera_resolution[1]
                    /\ 2 * call.x < call.render_resolution[1] + call.camera_resolution[1]
                    /\ 2 * call.y >= call.render_resolution[2] - call.camera_resolution[2]
                    /\ 2 * call.y < call.render_resolution[2] + call.camera_resolution[2])

\* an unclipped pixel next to a margin of odd total width
C10_Witness ==
    /\ Returned
    /\ (call.render_resolution[1] - call.camera_resolution[1]) % 2 = 1
    /\ call.camera_resolution[2] < call.render_resolution[2]
    /\ 2 * call.x > call.render_resolution[1] - call.camera_resolution[1]
    /\ 2 * (call.x - 1) < call.render_resolution[1] - call.camera_resolution[1]
    /\ ~ret.clipped

====
